---- MODULE Spec2Model ----
(***************************************************************************)
(* A model of influencer-finder.py: the contact-extraction pipeline of     *)
(* class InfluencerFinder.                                                 *)
(*                                                                         *)
(* Strings are modelled as sequences of tokens.  A title is a sequence of  *)
(* characters; a URL is a sequence of URL tokens (scheme, domain, path);   *)
(* the empty string '' is the empty sequence << >>.  An email address is   *)
(* one token, and '' is "".                                                *)
(*                                                                         *)
(* Four specifications share the variables:                                *)
(*   SpecName     _extract_company_name applied to every bounded title     *)
(*   Spec         process_search_results over bounded candidate lists      *)
(*   SpecExtract  extract_contact_info of one candidate over every         *)
(*                bounded page                                             *)
(*   SpecExport   export_to_google_spreadsheet and its temporary file       *)
(***************************************************************************)
EXTENDS Integers, Sequences, FiniteSets, TLC

VARIABLES
    heap,               \* the dict objects: object id -> candidate record
    results,            \* the caller's list (object ids), argument `results`
    limit,              \* argument max_pages_to_scan
    processed_results,  \* the list being built (object ids)
    idx,                \* the loop variable i of enumerate (0-based)
    pc,                 \* position in process_search_results
    cur,                \* the object extract_contact_info works on (0: none)
    response,           \* << page >> once session.get returned for `cur`
    trace,              \* observable events: session.get, append, sleep
    title,              \* SpecName: the argument of _extract_company_name
    company_name,       \* SpecName: its result
    again,              \* SpecName: the result of applying it to company_name
    name_pc,            \* SpecName: position
    ex_pc,              \* position in export_to_google_spreadsheet
    ex_data,            \* its argument `data`
    ex_json,            \* what its argument service_account_json holds
    filtered_data,      \* its local filtered_data
    temp_file,          \* the file at temp_path: "absent" or "present"
    sheet,              \* the remote spreadsheet
    ex_ret              \* its return value ("none": not returned)

vars == << heap, results, limit, processed_results, idx, pc, cur, response,
           trace, title, company_name, again, name_pc, ex_pc, ex_data,
           ex_json, filtered_data, temp_file, sheet, ex_ret >>

pipeVars == << heap, results, limit, processed_results, idx, pc, cur,
               response, trace >>

nameVars == << title, company_name, again, name_pc >>

exportVars == << ex_pc, ex_data, ex_json, filtered_data, temp_file, sheet,
                 ex_ret >>

\* export_to_google_spreadsheet is not running.
ExportIdle ==
    /\ ex_pc = "idle"
    /\ ex_data = << >>
    /\ ex_json = "none"
    /\ filtered_data = << >>
    /\ temp_file = "absent"
    /\ sheet = [ found |-> FALSE, has_tab |-> FALSE, rows |-> << >> ]
    /\ ex_ret = "none"

(***************************************************************************)
(* Bounds of the model.                                                    *)
(***************************************************************************)
MaxTitleLen == 4
MaxCands == 3
MaxLimit == 4
MaxFinds == 2
MaxItems == 2
MaxRows == 2

\* All sequences over S of length at most n.
SeqUpTo(S, n) == UNION { [1..k -> S] : k \in 0..n }

Min(a, b) == IF a < b THEN a ELSE b

(***************************************************************************)
(* _extract_company_name                                                   *)
(***************************************************************************)
\* The separators, in the order of the list; the full-width characters are
\* named by their code points.
separators == << "|", "-", ":", "U+FF1A", "U+FF0F", "/", "U+FF5C" >>

\* Characters str.strip() removes.
Whitespace == { " " }

\* `sep in s`
Contains(s, sep) == \E k \in 1..Len(s) : s[k] = sep

\* s.split(sep)[0]: the part of s before the first occurrence of sep (all of
\* s when sep does not occur).
RECURSIVE SplitFirst(_, _)
SplitFirst(s, sep) ==
    IF s = << >> \/ Head(s) = sep THEN << >>
    ELSE << Head(s) >> \o SplitFirst(Tail(s), sep)

RECURSIVE LStrip(_)
LStrip(s) ==
    IF s # << >> /\ Head(s) \in Whitespace THEN LStrip(Tail(s)) ELSE s

RECURSIVE RStrip(_)
RStrip(s) ==
    IF s # << >> /\ s[Len(s)] \in Whitespace
    THEN RStrip(SubSeq(s, 1, Len(s) - 1)) ELSE s

\* s.strip()
Strip(s) == RStrip(LStrip(s))

\* One round of the loop `for sep in separators` for separators[k..].
RECURSIVE SplitRounds(_, _)
SplitRounds(name, k) ==
    IF k > Len(separators) THEN name
    ELSE IF Contains(name, separators[k])
         THEN SplitRounds(Strip(SplitFirst(name, separators[k])), k + 1)
         ELSE SplitRounds(name, k + 1)

\* A loop that stops at the first separator of the list it finds.
RECURSIVE SplitRoundsBreak(_, _)
SplitRoundsBreak(name, k) ==
    IF k > Len(separators) THEN name
    ELSE IF Contains(name, separators[k])
         THEN Strip(SplitFirst(name, separators[k]))
         ELSE SplitRoundsBreak(name, k + 1)

extract_company_name_break(t) == SplitRoundsBreak(t, 1)

extract_company_name(t) == SplitRounds(t, 1)

(***************************************************************************)
(* search_google: the record built for one search item.                    *)
(***************************************************************************)
format_result(item) ==
    [ company_name  |-> extract_company_name(item.title),
      website_url   |-> item.link,
      title         |-> item.title,
      snippet       |-> item.snippet,
      instagram_url |-> << >>,
      tiktok_url    |-> << >>,
      youtube_url   |-> << >>,
      x_url         |-> << >>,
      facebook_url  |-> << >>,
      email         |-> "",
      source        |-> "Google Search" ]

(***************************************************************************)
(* _extract_emails                                                         *)
(***************************************************************************)
\* The lists list(set(S)) can be: a set of str has no defined iteration
\* order (it follows the strings' randomised hashes), so every order.
ListsOfSet(S) ==
    { f \in [1..Cardinality(S) -> S] : \A x \in S : \E k \in DOMAIN f : f[k] = x }

\* finds: what email_pattern.findall(text) returns, in scan order.  The
\* possible results of _extract_emails(text).
extract_emails(finds) ==
    IF finds = << >> THEN { << >> }
    ELSE ListsOfSet({ finds[k] : k \in 1..Len(finds) })

(***************************************************************************)
(* _extract_sns_urls: the patterns of sns_patterns over the URLs that      *)
(* occur in the markup.  A URL is << [scheme,] ["www.",] domain, path >>;  *)
(* a pattern names the domains and the path shapes it accepts, and         *)
(* whether it starts with https?://(?:www\.)?                              *)
(***************************************************************************)
Schemes == { "https://", "http://" }

\* The shape of a path token, as the character classes of the patterns see it.
PathShape(tok) ==
    CASE tok \in { "/acme", "/acme2" } -> "handle"
      [] tok \in { "/@acme", "/@acme2" } -> "at"
      [] tok \in { "/channel/UC1" } -> "channel"
      [] OTHER -> "other"

Pat(q, d, s) == [ qualified |-> q, domains |-> d, shapes |-> s ]

SnsTypes == << "instagram", "tiktok", "youtube", "x_twitter", "facebook" >>

sns_patterns(sns_type) ==
    CASE sns_type = "instagram" ->
           << Pat(TRUE,  { "instagram.com" }, { "handle" }),
              Pat(FALSE, { "instagram.com" }, { "handle" }) >>
      [] sns_type = "tiktok" ->
           << Pat(TRUE,  { "tiktok.com" }, { "at" }),
              Pat(FALSE, { "tiktok.com" }, { "at" }) >>
      [] sns_type = "youtube" ->
           << Pat(TRUE,  { "youtube.com" }, { "channel" }),
              Pat(TRUE,  { "youtube.com" }, { "at" }),
              Pat(FALSE, { "youtube.com" }, { "channel" }),
              Pat(FALSE, { "youtube.com" }, { "at" }) >>
      [] sns_type = "x_twitter" ->
           << Pat(TRUE,  { "twitter.com", "x.com" }, { "handle" }),
              Pat(FALSE, { "twitter.com", "x.com" }, { "handle" }) >>
      [] sns_type = "facebook" ->
           << Pat(TRUE,  { "facebook.com" }, { "handle" }),
              Pat(FALSE, { "facebook.com" }, { "handle" }) >>

\* url.startswith('http')
StartsWithHttp(url) == url # << >> /\ url[1] \in Schemes

DropScheme(url) == IF StartsWithHttp(url) THEN Tail(url) ELSE url

DropWww(url) == IF url # << >> /\ url[1] = "www." THEN Tail(url) ELSE url

\* The text the pattern matches in one URL of the markup (<< >>: no match).
\* A bare pattern matches from the domain on; a qualified one needs the
\* scheme and matches the whole URL.
MatchIn(pat, url) ==
    LET core == DropWww(DropScheme(url))
        fits == /\ Len(core) = 2
                /\ core[1] \in pat.domains
                /\ PathShape(core[2]) \in pat.shapes
    IN  IF ~fits THEN << >>
        ELSE IF pat.qualified
             THEN (IF StartsWithHttp(url) THEN url ELSE << >>)
             ELSE core

\* pattern.findall(text): the matches in scan order.
RECURSIVE findall(_, _)
findall(pat, html) ==
    IF html = << >> THEN << >>
    ELSE LET m == MatchIn(pat, Head(html))
         IN  (IF m = << >> THEN << >> ELSE << m >>) \o findall(pat, Tail(html))

\* The inner loop `for pattern in patterns`: the URL of the first pattern,
\* from the k-th on, with a match ('' when none matches).
RECURSIVE FirstPatternUrl(_, _, _)
FirstPatternUrl(patterns, k, html) ==
    IF k > Len(patterns) THEN << >>
    ELSE LET matches == findall(patterns[k], html)
         IN  IF matches # << >>
             THEN (IF StartsWithHttp(matches[1]) THEN matches[1]
                   ELSE << "https://" >> \o matches[1])
             ELSE FirstPatternUrl(patterns, k + 1, html)

Platforms == { "instagram", "tiktok", "youtube", "x", "facebook" }

\* The key of sns_urls a pattern group writes.
SnsKey(sns_type) == IF sns_type = "x_twitter" THEN "x" ELSE sns_type

extract_sns_urls(html) ==
    [ p \in Platforms |->
        LET sns_type == CHOOSE t \in { SnsTypes[k] : k \in 1..Len(SnsTypes) } :
                            SnsKey(t) = p
        IN  FirstPatternUrl(sns_patterns(sns_type), 1, html) ]

(***************************************************************************)
(* _extract_sns_urls_from_links                                            *)
(***************************************************************************)
\* The if/elif chain over one href: the key it is stored under ("": none).
Classify(href) ==
    IF Contains(href, "instagram.com") THEN "instagram"
    ELSE IF Contains(href, "tiktok.com") THEN "tiktok"
    ELSE IF Contains(href, "youtube.com") \/ Contains(href, "youtu.be")
         THEN "youtube"
    ELSE IF Contains(href, "twitter.com") \/ Contains(href, "x.com") THEN "x"
    ELSE IF Contains(href, "facebook.com") THEN "facebook"
    ELSE ""

EmptySns == [ p \in Platforms |-> << >> ]

\* The loop `for link in links` from sns_urls on.
RECURSIVE LinksInto(_, _)
LinksInto(sns_urls, links) ==
    IF links = << >> THEN sns_urls
    ELSE LET key == Classify(Head(links))
         IN  LinksInto(IF key = "" THEN sns_urls
                       ELSE [sns_urls EXCEPT ![key] = Head(links)],
                       Tail(links))

extract_sns_urls_from_links(links) == LinksInto(EmptySns, links)

(***************************************************************************)
(* extract_contact_info: what is written to `result` after the fetch.      *)
(***************************************************************************)
\* An update in which the values already in `d` win.
dict_update_keep(d, other) ==
    [ k \in DOMAIN d \cup DOMAIN other |->
        IF k \in DOMAIN d /\ d[k] # << >> THEN d[k]
        ELSE IF k \in DOMAIN other THEN other[k] ELSE d[k] ]

\* d.update(other): every key of `other` is written, '' values too.
dict_update(d, other) ==
    [ k \in DOMAIN d \cup DOMAIN other |->
        IF k \in DOMAIN other THEN other[k] ELSE d[k] ]

\* f'{sns_type}_url'
UrlField(p) ==
    CASE p = "instagram" -> "instagram_url"
      [] p = "tiktok" -> "tiktok_url"
      [] p = "youtube" -> "youtube_url"
      [] p = "x" -> "x_url"
      [] p = "facebook" -> "facebook_url"

\* The URLs that occur in the raw markup, in document order: the text of
\* response.text holds the hrefs of the anchors as well.
HtmlUrls(page) == [ k \in 1..Len(page.items) |-> page.items[k].url ]

IsAnchor(item) == item.kind = "a"

\* soup.find_all('a', href=True), as the hrefs.
Links(page) ==
    LET anchors == SelectSeq(page.items, IsAnchor)
    IN  [ k \in 1..Len(anchors) |-> anchors[k].url ]

\* sns_urls after lines 224-225.
merged_sns_urls(page) ==
    dict_update(extract_sns_urls(HtmlUrls(page)),
                extract_sns_urls_from_links(Links(page)))

\* Lines 220-221 and 228-230: `result` with the signals written, given the
\* list `emails`.
write_signals(result, emails, sns_urls) ==
    [ f \in DOMAIN result |->
        IF f = "email" /\ emails # << >> THEN emails[1]
        ELSE IF \E p \in Platforms : UrlField(p) = f /\ sns_urls[p] # << >>
             THEN sns_urls[CHOOSE p \in Platforms : UrlField(p) = f]
             ELSE result[f] ]

(***************************************************************************)
(* SpecName: every title of at most MaxTitleLen characters.                *)
(***************************************************************************)
TitleChars == { "a", " " } \cup { separators[k] : k \in 1..Len(separators) }

Titles == SeqUpTo(TitleChars, MaxTitleLen)

Idle ==
    /\ heap = << >>
    /\ results = << >>
    /\ limit = 0
    /\ processed_results = << >>
    /\ idx = 0
    /\ pc = "idle"
    /\ cur = 0
    /\ response = << >>
    /\ trace = << >>

InitName ==
    /\ Idle
    /\ ExportIdle
    /\ title \in Titles
    /\ company_name = << >>
    /\ again = << >>
    /\ name_pc = "call"

\* company_name = self._extract_company_name(title)
DeriveName ==
    /\ name_pc = "call"
    /\ company_name' = extract_company_name(title)
    /\ name_pc' = "derived"
    /\ UNCHANGED << title, again >>
    /\ UNCHANGED << pipeVars, exportVars >>

\* The function applied to its own result.
DeriveAgain ==
    /\ name_pc = "derived"
    /\ again' = extract_company_name(company_name)
    /\ name_pc' = "twice"
    /\ UNCHANGED << title, company_name >>
    /\ UNCHANGED << pipeVars, exportVars >>

NextName == DeriveName \/ DeriveAgain

SpecName == InitName /\ [][NextName]_vars

(***************************************************************************)
(* Claims about _extract_company_name (checked under SpecName).            *)
(***************************************************************************)
SeparatorSet == { separators[k] : k \in 1..Len(separators) }

\* The index of the first separator character of t (Len(t) + 1: none).
FirstSeparator(t) ==
    LET at == { k \in 1..Len(t) : t[k] \in SeparatorSet }
    IN  IF at = { } THEN Len(t) + 1
        ELSE CHOOSE k \in at : \A j \in at : k <= j

\* s without its leading and trailing whitespace, by positions.
Trimmed(s) ==
    LET solid == { k \in 1..Len(s) : s[k] \notin Whitespace }
    IN  IF solid = { } THEN << >>
        ELSE SubSeq(s, CHOOSE k \in solid : \A j \in solid : k <= j,
                       CHOOSE k \in solid : \A j \in solid : k >= j)

\* The left-most segment of t before the first separator, trimmed.
LeftmostSegment(t) == Trimmed(SubSeq(t, 1, FirstSeparator(t) - 1))

\* C8: for every title, the derived name is the left-most segment before the
\* first occurrence of any separator, trimmed of surrounding whitespace,
\* also for a title that holds no separator.
C8_LeftmostSegmentTrimmed ==
    name_pc # "call" => company_name = LeftmostSegment(title)

\* C9: deriving the name of a derived name changes nothing:
\* _extract_company_name(_extract_company_name(t)) = _extract_company_name(t).
C9_Idempotent ==
    name_pc = "twice" => again = company_name

\* A title with two different separators of which the later one in the list
\* comes first in the title, derived twice.
C9_Witness ==
    /\ name_pc = "twice"
    /\ Contains(title, "|")
    /\ FirstSeparator(title) <= Len(title)
    /\ title[FirstSeparator(title)] = "-"
    /\ company_name # title

(***************************************************************************)
(* The web: what session.get can return for a candidate's URL.             *)
(***************************************************************************)
\* The exceptions session.get and raise_for_status raise: timeout,
\* connection error, non-success status.
FetchErrors == { "Timeout", "ConnectionError", "HTTPError" }

\* What BeautifulSoup or response.text raises on a page it cannot take.
ParseErrors == { "ParserRejectedMarkup" }

\* `except Exception` catches every exception class raised in the try block.
CaughtOnlyHTTPError(e) == e = "HTTPError"

Caught(e) == e \in FetchErrors \cup ParseErrors

Emails == { "a@x.jp", "b@y.jp" }

SiteUrl == << "https://", "site.jp", "/" >>

PageUrls ==
    { << "https://", "instagram.com", "/acme" >>,
      << "instagram.com", "/acme2" >>,
      << "https://", "www.", "tiktok.com", "/@acme" >>,
      << "tiktok.com", "/@acme2" >>,
      << "https://", "youtube.com", "/channel/UC1" >>,
      << "youtube.com", "/@acme" >>,
      << "https://", "youtu.be", "/v1" >>,
      << "https://", "twitter.com", "/acme" >>,
      << "x.com", "/acme2" >>,
      << "https://", "facebook.com", "/acme" >>,
      << "facebook.com", "/acme2" >>,
      << "/about" >> }

\* One URL of a page: the href of an anchor ("a") or plain text ("text").
PageItems == [ kind : { "a", "text" }, url : PageUrls ]

Page(t, h, i) == [ text_finds |-> t, html_finds |-> h, items |-> i ]

\* text_finds, html_finds: the email matches in the visible text and in
\* the raw markup, in scan order.
EmailPages ==
    { Page(t, h, << >>) : t \in SeqUpTo(Emails, MaxFinds),
                          h \in SeqUpTo(Emails, MaxFinds) }

SnsPages == { Page(<< >>, << >>, i) : i \in SeqUpTo(PageItems, MaxItems) }

\* A few whole pages for the runs over several candidates.
SmallPages ==
    { Page(<< >>, << >>, << >>),
      Page(<< "a@x.jp" >>, << "a@x.jp" >>,
           << [kind |-> "a", url |-> << "https://", "instagram.com", "/acme" >>] >>),
      Page(<< >>, << "b@y.jp" >>,
           << [kind |-> "text", url |-> << "instagram.com", "/acme2" >>],
              [kind |-> "a", url |-> << "https://", "youtu.be", "/v1" >>] >>) }

ExtractPages == EmailPages \cup SnsPages \cup SmallPages

(***************************************************************************)
(* process_search_results and extract_contact_info as a state machine.     *)
(***************************************************************************)
\* results[:max_pages_to_scan] including one element too many.
SliceOneMore(list, n) == SubSeq(list, 1, Min(n + 1, Len(list)))

\* results[:max_pages_to_scan] for max_pages_to_scan >= 0.
Slice(list, n) == SubSeq(list, 1, Min(n, Len(list)))

\* No copy: extraction works on the caller's dict.
result_alias(h, r) == << h, r >>

\* result.copy(): a new dict with the same items; << the heap, its id >>.
result_copy(h, r) == << Append(h, h[r]), Len(h) + 1 >>

\* A handler that marks the record it returns.
on_exception_mark(rec) == [rec EXCEPT !.email = "N/A"]

\* The except clause: st.warning, then `return result`.
on_exception(rec) == rec

Ev(e) == << e, idx + 1 >>

\* The event is in the trace.
Has(ev) == \E k \in 1..Len(trace) : trace[k] = ev

SearchItems ==
    [ title   : { << "a" >>, << "a", " ", "|", " ", "b" >> },
      link    : { << >>, SiteUrl },
      snippet : { "s" } ]

NameIdle ==
    /\ title = << >>
    /\ company_name = << >>
    /\ again = << >>
    /\ name_pc = "idle"

\* The call process_search_results(results, max_pages_to_scan) on a list
\* search_google built.
InitOf(items, n) ==
    /\ heap = [ k \in 1..Len(items) |-> format_result(items[k]) ]
    /\ results = [ k \in 1..Len(items) |-> k ]
    /\ limit = n
    /\ processed_results = << >>
    /\ idx = 0
    /\ pc = "loop"
    /\ cur = 0
    /\ response = << >>
    /\ trace = << >>
    /\ NameIdle
    /\ ExportIdle

Init == \E items \in SeqUpTo(SearchItems, MaxCands), n \in 0..MaxLimit :
            InitOf(items, n)

\* Lines 359-369: the next element of the slice; a candidate with a
\* website_url is copied and handed to extract_contact_info, one without is
\* appended as it is.
Begin ==
    /\ pc = "loop"
    /\ idx < Len(Slice(results, limit))
    /\ LET result == Slice(results, limit)[idx + 1]
       IN  IF heap[result].website_url # << >>
           THEN LET c == result_copy(heap, result)
                IN  /\ heap' = c[1]
                    /\ cur' = c[2]
                    /\ pc' = "get"
                    /\ UNCHANGED << processed_results, trace >>
           ELSE /\ processed_results' = Append(processed_results, result)
                /\ trace' = trace \o << Ev("append") >>
                /\ pc' = "sleep"
                /\ UNCHANGED << heap, cur >>
    /\ UNCHANGED << results, limit, idx, response >>
    /\ UNCHANGED << nameVars, exportVars >>

\* A fetch that is tried again after it failed.
FetchFailRetry ==
    /\ pc = "get"
    /\ trace' = trace \o << Ev("get"), Ev("get_failed") >>
    /\ UNCHANGED << heap, results, limit, processed_results, idx, pc, cur,
                    response >>
    /\ UNCHANGED << nameVars, exportVars >>

\* Lines 194-195 raise: the except clause returns `result`, which is
\* appended; an exception it does not catch leaves process_search_results.
FetchFail ==
    /\ pc = "get"
    /\ \E e \in FetchErrors :
         IF Caught(e)
         THEN /\ heap' = [heap EXCEPT ![cur] = on_exception(heap[cur])]
              /\ processed_results' = Append(processed_results, cur)
              /\ trace' = trace \o << Ev("get"), Ev("get_failed"),
                                      Ev("warning"), Ev("append") >>
              /\ pc' = "sleep"
         ELSE /\ trace' = trace \o << Ev("get"), Ev("get_failed") >>
              /\ pc' = "raised"
              /\ UNCHANGED << heap, processed_results >>
    /\ UNCHANGED << results, limit, idx, cur, response >>
    /\ UNCHANGED << nameVars, exportVars >>

\* Lines 194-195 succeed with one of the pages P.
FetchOk(P) ==
    /\ pc = "get"
    /\ \E page \in P : response' = << page >>
    /\ trace' = Append(trace, Ev("get"))
    /\ pc' = "parse"
    /\ UNCHANGED << heap, results, limit, processed_results, idx, cur >>
    /\ UNCHANGED << nameVars, exportVars >>

\* Lines 198-212 raise (an unknown charset, markup the parser rejects):
\* nothing was written yet.
ParseFail ==
    /\ pc = "parse"
    /\ \E e \in ParseErrors :
         IF Caught(e)
         THEN /\ heap' = [heap EXCEPT ![cur] = on_exception(heap[cur])]
              /\ processed_results' = Append(processed_results, cur)
              /\ trace' = trace \o << Ev("parse_failed"), Ev("warning"),
                                      Ev("append") >>
              /\ pc' = "sleep"
         ELSE /\ trace' = Append(trace, Ev("parse_failed"))
              /\ pc' = "raised"
              /\ UNCHANGED << heap, processed_results >>
    /\ UNCHANGED << results, limit, idx, cur, response >>
    /\ UNCHANGED << nameVars, exportVars >>

\* Lines 205-232: the emails of the text, then those of the markup; the
\* first of the list is kept; the profile URLs are merged and written.
Extract ==
    /\ pc = "parse"
    /\ \E te \in extract_emails(response[1].text_finds),
          he \in extract_emails(response[1].html_finds) :
         heap' = [heap EXCEPT ![cur] =
                    write_signals(heap[cur], te \o he,
                                  merged_sns_urls(response[1]))]
    /\ processed_results' = Append(processed_results, cur)
    /\ trace' = trace \o << Ev("extracted"), Ev("append") >>
    /\ pc' = "sleep"
    /\ UNCHANGED << results, limit, idx, cur, response >>
    /\ UNCHANGED << nameVars, exportVars >>

\* A round that sleeps only after a fetch that did not fail.
SleepUnlessFailed ==
    /\ pc = "sleep"
    /\ trace' = IF Has(<< "get_failed", idx + 1 >>) THEN trace
                ELSE Append(trace, Ev("sleep"))
    /\ idx' = idx + 1
    /\ cur' = 0
    /\ response' = << >>
    /\ pc' = "loop"
    /\ UNCHANGED << heap, results, limit, processed_results >>
    /\ UNCHANGED << nameVars, exportVars >>

\* Line 372: time.sleep(random.uniform(0.5, 1.5)), then the next round.
Sleep ==
    /\ pc = "sleep"
    /\ trace' = Append(trace, Ev("sleep"))
    /\ idx' = idx + 1
    /\ cur' = 0
    /\ response' = << >>
    /\ pc' = "loop"
    /\ UNCHANGED << heap, results, limit, processed_results >>
    /\ UNCHANGED << nameVars, exportVars >>

\* Lines 374-379: the slice is exhausted; processed_results is returned.
Finish ==
    /\ pc = "loop"
    /\ idx >= Len(Slice(results, limit))
    /\ pc' = "done"
    /\ UNCHANGED << heap, results, limit, processed_results, idx, cur,
                    response, trace >>
    /\ UNCHANGED << nameVars, exportVars >>

Next ==
    \/ Begin
    \/ FetchFail
    \/ FetchOk(SmallPages)
    \/ ParseFail
    \/ Extract
    \/ Sleep
    \/ Finish

Spec == Init /\ [][Next]_vars

(***************************************************************************)
(* SpecExtract: one candidate with a website_url, every bounded page.      *)
(***************************************************************************)
InitExtract ==
    \E t \in { << "a" >>, << "a", " ", "|", " ", "b" >> } :
        InitOf(<< [title |-> t, link |-> SiteUrl, snippet |-> "s"] >>, 1)

NextExtract ==
    \/ Begin
    \/ FetchFail
    \/ FetchOk(ExtractPages)
    \/ ParseFail
    \/ Extract
    \/ Sleep
    \/ Finish

SpecExtract == InitExtract /\ [][NextExtract]_vars

(***************************************************************************)
(* Claims about process_search_results (checked under Spec).               *)
(***************************************************************************)
IsGet(ev) == ev[1] = "get"

\* The positions (1-based) session.get was called for, in call order.
Gets == SelectSeq(trace, IsGet)

SignalFields ==
    { "instagram_url", "tiktok_url", "youtube_url", "x_url", "facebook_url" }

SignalsEmpty(rec) ==
    rec.email = "" /\ \A f \in SignalFields : rec[f] = << >>

\* C1: the returned list is as long as the input list; a candidate at a
\* position beyond the limit is in the output at its position with empty
\* signal fields and its title, url and snippet.
C1_OutputLengthEqualsInput ==
    pc = "done" =>
        /\ Len(processed_results) = Len(results)
        /\ \A k \in 1..Len(results) :
             k > limit =>
                /\ SignalsEmpty(heap[processed_results[k]])
                /\ heap[processed_results[k]].title = heap[results[k]].title
                /\ heap[processed_results[k]].website_url
                       = heap[results[k]].website_url
                /\ heap[processed_results[k]].snippet
                       = heap[results[k]].snippet

C3_FetchFailureIsolated ==
    /\ pc # "raised"
    /\ pc = "done" =>
         \A k \in 1..Min(Len(results), limit) :
            /\ Has(<< "append", k >>)
            /\ k <= Len(processed_results)
            /\ heap[results[k]].website_url # << >> => Has(<< "get", k >>)

\* A finished run in which a fetch failed and a later candidate was fetched
\* and extracted.
C3_Witness ==
    /\ pc = "done"
    /\ \E j, k \in 1..Len(results) :
         /\ j < k
         /\ Has(<< "get_failed", j >>)
         /\ Has(<< "get", k >>)
         /\ Has(<< "extracted", k >>)

\* C4: the output record of a candidate whose fetch failed equals the input
\* candidate field for field, with an empty email and five empty profile
\* URLs.
C4_FailedFetchPassesThrough ==
    \A k \in 1..Len(processed_results) :
        Has(<< "get_failed", k >>) =>
            /\ heap[processed_results[k]] = heap[results[k]]
            /\ SignalsEmpty(heap[processed_results[k]])

\* A failed fetch whose record is in the output, after an extraction that
\* wrote an email.
C4_Witness ==
    \E j, k \in 1..Len(processed_results) :
        /\ j < k
        /\ heap[processed_results[j]].email # ""
        /\ Has(<< "get_failed", k >>)

OutputKeepsDisplayFields ==
    \A k \in 1..Len(processed_results) :
        \A f \in { "title", "website_url", "snippet", "company_name" } :
            heap[processed_results[k]][f] = heap[results[k]][f]

InputNotMutated ==
    /\ results' = results
    /\ \A k \in 1..Len(results) : heap'[results[k]] = heap[results[k]]

\* C10: whatever the fetch and the extraction do, an output record has the
\* title, url, snippet and display name of its input candidate, and no step
\* changes a record of the caller's list.
C10_OnlySignalFieldsChange ==
    []OutputKeepsDisplayFields /\ [][InputNotMutated]_vars

\* A finished run in which an extraction wrote an email and a profile URL to
\* its output record.
C10_Witness ==
    /\ pc = "done"
    /\ \E k \in 1..Len(processed_results) :
         /\ Has(<< "extracted", k >>)
         /\ heap[processed_results[k]].email # ""
         /\ heap[processed_results[k]].instagram_url # << >>
         /\ SignalsEmpty(heap[results[k]])

(***************************************************************************)
(* Claims about extract_contact_info (checked under SpecExtract).          *)
(***************************************************************************)
\* The extraction of the current candidate has returned; its page is still
\* in `response`.
ExtractedNow ==
    /\ pc = "sleep"
    /\ response # << >>
    /\ Has(<< "extracted", idx + 1 >>)

\* The positions of the anchors whose href is classified to platform p.
AnchorsOf(page, p) ==
    { k \in 1..Len(Links(page)) : Classify(Links(page)[k]) = p }

\* The anchor-derived URL of platform p: the href of the last such anchor.
AnchorUrl(page, p) ==
    Links(page)[CHOOSE k \in AnchorsOf(page, p) :
                    \A j \in AnchorsOf(page, p) : j <= k]

\* The pattern-derived URL of platform p ('' when no pattern matches).
PatternUrl(page, p) == extract_sns_urls(HtmlUrls(page))[p]

\* C5: when a page has an anchor classified to a platform and a pattern
\* match for that platform, the record's profile URL of the platform is the
\* anchor's href.
C5_AnchorOverridesPattern ==
    ExtractedNow =>
        \A p \in Platforms :
            (AnchorsOf(response[1], p) # { } /\ PatternUrl(response[1], p) # << >>)
                => heap[cur][UrlField(p)] = AnchorUrl(response[1], p)

\* A page on which the anchor and the pattern give different URLs for one
\* platform.
C5_Witness ==
    /\ ExtractedNow
    /\ \E p \in Platforms :
         /\ AnchorsOf(response[1], p) # { }
         /\ PatternUrl(response[1], p) # << >>
         /\ PatternUrl(response[1], p) # AnchorUrl(response[1], p)

\* C6: when a page has a pattern match for a platform and no anchor
\* classified to it, the record's profile URL of the platform is the
\* pattern-derived URL, with a scheme, and not empty.
C6_PatternKeptWithoutAnchor ==
    ExtractedNow =>
        \A p \in Platforms :
            (AnchorsOf(response[1], p) = { } /\ PatternUrl(response[1], p) # << >>)
                => /\ heap[cur][UrlField(p)] = PatternUrl(response[1], p)
                   /\ StartsWithHttp(heap[cur][UrlField(p)])

\* C7: the stored email is the first email in scan order of the visible
\* text when the text has one, otherwise the first in scan order of the raw
\* markup.
C7_FirstEmailInScanOrder ==
    ExtractedNow =>
        heap[cur].email =
            IF response[1].text_finds # << >> THEN response[1].text_finds[1]
            ELSE IF response[1].html_finds # << >> THEN response[1].html_finds[1]
            ELSE ""

(***************************************************************************)
(* Claims about the order of the steps of a run (checked under Spec).      *)
(***************************************************************************)
\* C11: the pacing delay is never skipped: whenever a candidate's record was
\* appended (after an extraction, a failed fetch or for an empty url) and a
\* later candidate is fetched, a sleep lies between the two.
C11_SleepBetweenCandidates ==
    \A a, b \in 1..Len(trace) :
        (a < b /\ trace[a][1] = "append" /\ trace[b][1] = "get")
            => \E c \in (a + 1)..(b - 1) :
                  trace[c] = << "sleep", trace[a][2] >>

\* A run whose first fetch failed, whose second candidate has no url and
\* whose third candidate was fetched.
C11_Witness ==
    /\ Len(results) >= 3
    /\ Has(<< "get_failed", 1 >>)
    /\ heap[results[2]].website_url = << >>
    /\ Has(<< "append", 2 >>)
    /\ Has(<< "get", 3 >>)

\* The state of the candidate at position k (1-based) of the input list.
State(k) ==
    IF k <= idx THEN "DONE"
    ELSE IF k > idx + 1 \/ pc \in { "loop", "done" } THEN "PENDING"
    ELSE IF pc \in { "get", "parse" } THEN "FETCHING"
    ELSE IF Has(<< "extracted", k >>) THEN "EXTRACTED"
    ELSE IF Has(<< "get", k >>) THEN "FETCH_FAILED"
    ELSE "DONE"

HasUrl(k) == heap[results[k]].website_url # << >>

\* The steps PENDING -> FETCHING -> (EXTRACTED | FETCH_FAILED) -> DONE.
StrictStep(from, to) ==
    \/ from = to
    \/ from = "PENDING" /\ to = "FETCHING"
    \/ from = "FETCHING" /\ to \in { "EXTRACTED", "FETCH_FAILED" }
    \/ from \in { "EXTRACTED", "FETCH_FAILED" } /\ to = "DONE"

\* Each candidate is fetched at most once.
NoRetry ==
    \A a, b \in 1..Len(Gets) : Gets[a][2] = Gets[b][2] => a = b

\* At most one candidate is out of PENDING and not yet DONE, and a candidate
\* leaves PENDING only when its predecessor is DONE.
OneAtATime ==
    /\ \A j, k \in 1..Len(results) :
         (State(j) \notin { "PENDING", "DONE" }
          /\ State(k) \notin { "PENDING", "DONE" }) => j = k
    /\ \A k \in 2..Len(results) :
         State(k) # "PENDING" => State(k - 1) = "DONE"

\* C12 as claimed: every candidate moves only along PENDING -> FETCHING ->
\* (EXTRACTED | FETCH_FAILED) -> DONE, is fetched at most once, and the
\* candidates are handled one at a time in input order.
C12_EveryCandidateFetched ==
    /\ [](NoRetry /\ OneAtATime)
    /\ [][\A k \in 1..Len(results) : StrictStep(State(k), State(k)')]_vars

\* C12 as amended: a candidate with a url moves only along PENDING ->
\* FETCHING -> (EXTRACTED | FETCH_FAILED) -> DONE; a candidate without url
\* goes from PENDING to DONE without a fetch; each candidate is fetched at
\* most once, and the candidates are handled one at a time in input order.
C12_StateMachine ==
    /\ [](NoRetry /\ OneAtATime)
    /\ [][\A k \in 1..Len(results) :
            IF HasUrl(k) THEN StrictStep(State(k), State(k)')
            ELSE State(k)' = State(k)
                 \/ (State(k) = "PENDING" /\ State(k)' = "DONE")]_vars

\* A finished run with a failed fetch, an extraction and a candidate
\* without url.
C12_Witness ==
    /\ pc = "done"
    /\ \E i, j, k \in 1..Len(results) :
         /\ Has(<< "get_failed", i >>)
         /\ Has(<< "extracted", j >>)
         /\ ~HasUrl(k) /\ State(k) = "DONE"

(***************************************************************************)
(* Claim about a page that cannot be parsed (checked under SpecExtract).   *)
(***************************************************************************)
\* The page of the current candidate was fetched, parsing it raised, and
\* extract_contact_info has returned.
ParseFailedNow ==
    /\ pc = "sleep"
    /\ response # << >>
    /\ Has(<< "parse_failed", idx + 1 >>)

\* C13: when the page was fetched and parsing it fails, nothing is fatal and
\* the record still gets what the scans of the raw markup match: an email
\* of the markup when it holds one, and the pattern-derived profile URL of
\* every platform with a pattern match.
C13_RegexSignalsSurviveParseError ==
    /\ pc # "raised"
    /\ ParseFailedNow =>
         /\ response[1].html_finds # << >> =>
              \E k \in 1..Len(response[1].html_finds) :
                  heap[cur].email = response[1].html_finds[k]
         /\ \A p \in Platforms :
              PatternUrl(response[1], p) # << >>
                  => heap[cur][UrlField(p)] = PatternUrl(response[1], p)

(***************************************************************************)
(* export_to_google_spreadsheet as a state machine.                        *)
(***************************************************************************)
columns ==
    << "company_name", "website_url", "instagram_url", "tiktok_url",
       "youtube_url", "x_url", "facebook_url", "email" >>

\* {col: item.get(col, '') for col in columns}; every record of the
\* pipeline holds every column.
filtered_item(item) ==
    [ col \in { columns[k] : k \in 1..Len(columns) } |-> item[col] ]

\* Records as process_search_results returns them.
ExportRecords ==
    LET r == format_result([title |-> << "a" >>, link |-> SiteUrl, snippet |-> "s"])
    IN  { r, [r EXCEPT !.email = "a@x.jp"] }

\* What service_account_json can hold: text json.loads rejects, JSON that
\* is no service-account key, a service-account key.
JsonKinds == { "not_json", "not_credentials", "credentials" }

\* The spreadsheet of spreadsheet_id: missing, without the tab sheet_name,
\* or with the tab and old rows.
Sheets ==
    { [ found |-> FALSE, has_tab |-> FALSE, rows |-> << >> ],
      [ found |-> TRUE,  has_tab |-> FALSE, rows |-> << >> ],
      [ found |-> TRUE,  has_tab |-> TRUE,  rows |-> << "old" >> ] }

InitExport ==
    /\ Idle
    /\ NameIdle
    /\ ex_pc = "start"
    /\ ex_data \in SeqUpTo(ExportRecords, MaxRows)
    /\ ex_json \in JsonKinds
    /\ filtered_data = << >>
    /\ temp_file = "absent"
    /\ sheet \in Sheets
    /\ ex_ret = "none"

\* The except clause of line 492: st.error, return False.
ExReturnFalse ==
    /\ ex_ret' = "False"
    /\ ex_pc' = "returned"

\* Lines 442-451.
ExFilter ==
    /\ ex_pc = "start"
    /\ filtered_data' = [ k \in 1..Len(ex_data) |-> filtered_item(ex_data[k]) ]
    /\ ex_pc' = "tempfile"
    /\ UNCHANGED << ex_data, ex_json, temp_file, sheet, ex_ret >>
    /\ UNCHANGED << pipeVars, nameVars >>

\* Lines 454-456: NamedTemporaryFile(delete=False) creates the file; then
\* json.loads raises on text that is no JSON, else the key is written.
ExWriteTemp ==
    /\ ex_pc = "tempfile"
    /\ temp_file' = "present"
    /\ IF ex_json = "not_json" THEN ExReturnFalse
       ELSE ex_pc' = "auth" /\ UNCHANGED ex_ret
    /\ UNCHANGED << ex_data, ex_json, filtered_data, sheet >>
    /\ UNCHANGED << pipeVars, nameVars >>

\* Lines 460-461: Credentials.from_service_account_file raises on a file
\* that is no service-account key.
ExAuth ==
    /\ ex_pc = "auth"
    /\ IF ex_json = "credentials" THEN ex_pc' = "unlink" /\ UNCHANGED ex_ret
       ELSE ExReturnFalse
    /\ UNCHANGED << ex_data, ex_json, filtered_data, temp_file, sheet >>
    /\ UNCHANGED << pipeVars, nameVars >>

\* Line 464: os.unlink(temp_path).
ExUnlink ==
    /\ ex_pc = "unlink"
    /\ temp_file' = "absent"
    /\ ex_pc' = "open"
    /\ UNCHANGED << ex_data, ex_json, filtered_data, sheet, ex_ret >>
    /\ UNCHANGED << pipeVars, nameVars >>

\* Lines 467-471: gc.open_by_key; a missing spreadsheet returns False.
ExOpen ==
    /\ ex_pc = "open"
    /\ IF sheet.found THEN ex_pc' = "worksheet" /\ UNCHANGED ex_ret
       ELSE ExReturnFalse
    /\ UNCHANGED << ex_data, ex_json, filtered_data, temp_file, sheet >>
    /\ UNCHANGED << pipeVars, nameVars >>

\* Lines 474-478: the tab is cleared, or added when it is not found.
ExWorksheet ==
    /\ ex_pc = "worksheet"
    /\ sheet' = [sheet EXCEPT !.has_tab = TRUE, !.rows = << >>]
    /\ ex_pc' = "update"
    /\ UNCHANGED << ex_data, ex_json, filtered_data, temp_file, ex_ret >>
    /\ UNCHANGED << pipeVars, nameVars >>

\* Lines 481-490: the header (the columns of the DataFrame, none for no
\* rows) and the values are written; return True.
ExUpdate ==
    /\ ex_pc = "update"
    /\ sheet' = [sheet EXCEPT !.rows =
                    << IF filtered_data = << >> THEN << >> ELSE columns >>
                    \o filtered_data]
    /\ ex_ret' = "True"
    /\ ex_pc' = "returned"
    /\ UNCHANGED << ex_data, ex_json, filtered_data, temp_file >>
    /\ UNCHANGED << pipeVars, nameVars >>

\* A request to the spreadsheet service fails (lines 475-488): the except
\* clause of line 492 returns False.
ExApiError ==
    /\ ex_pc \in { "worksheet", "update" }
    /\ ExReturnFalse
    /\ UNCHANGED << ex_data, ex_json, filtered_data, temp_file, sheet >>
    /\ UNCHANGED << pipeVars, nameVars >>

NextExport ==
    \/ ExFilter
    \/ ExWriteTemp
    \/ ExAuth
    \/ ExUnlink
    \/ ExOpen
    \/ ExWorksheet
    \/ ExUpdate
    \/ ExApiError

SpecExport == InitExport /\ [][NextExport]_vars

\* C14: when export_to_google_spreadsheet has returned, on whatever path,
\* the temporary file it wrote the credential into no longer exists.
C14_TempFileRemoved ==
    ex_pc = "returned" => temp_file = "absent"

====
